---- MODULE Spec2Model ----
(***************************************************************************)
(* A state-machine model of the container runner: main (app/main.go),      *)
(* ContainerEnvironment (app/main.go) and DockerImageDownloader            *)
(* (app/docker_image_downloader.go).                                       *)
(*                                                                         *)
(* The main goroutine is modelled by its program position pc; every        *)
(* fallible call to the operating system or to the registry is an action   *)
(* whose outcome is drawn with \E from the outcomes that call can have.    *)
(* An error returned inside NewContainerEnvironment travels up to main,    *)
(* which calls log.Fatal: the action in which the error arises therefore   *)
(* ends the process with status 1 (Fatal).                                 *)
(***************************************************************************)
EXTENDS Integers, Sequences, FiniteSets, TLC

\* ------------------------------------------------------------------ bounds

\* Longest layer list a manifest declares.
MaxLayers == 2
\* Longest platform fan-out list a manifest declares.
MaxManifests == 2
\* How many times the clock advances (by GraceSeconds) during one run.
MaxTicks == 1
\* Bytes the child writes in total, over both streams.
MaxChildWrites == 2
\* Bytes a pipe holds before a write to it blocks.
PipeCap == 1

\* ------------------------------------------------------- program constants

\* refreshToken: the margin subtracted from expires_in, in seconds.
GraceSeconds == 60
\* refreshToken: the lifetime assumed when expires_in is not given.
DefaultLifetime == 3600
\* log.Fatal / log.Fatalf end the process with this status.
FatalStatus == 1
\* RunCommand's code for a wait error that is no *exec.ExitError.
FallbackCode == 1
\* main's least len(os.Args).
MinArgs == 4
\* setupDevices: /dev/null is major 1, minor 3.
NullMajor == 1
NullMinor == 3
\* mkdev: the bits the major number is shifted by, which the minor number has.
MinorBits == 8

\* Longest image reference parsed, in characters.
MaxRefLen == 4

\* --------------------------------------------------------- input alphabets

\* runtime.GOOS and runtime.GOARCH of the build.
GOOS == "linux"
GOARCH == "amd64"

\* Image references given on the command line, as sequences of characters.
ImageRefs == { <<>>, <<"a", ":", "t">> }

\* len(os.Args) of a run.
ArgCounts == { 3, 4 }

\* Layer digests of the registry.
Digests == { "sha256:a", "sha256:b" }

\* Digests of the per-platform manifests of the registry.
ManifestDigests == { "sha256:m1", "sha256:m2" }

\* The token endpoint's bodies with status 200: the "token" field (empty when
\* only access_token is sent) and "expires_in" in seconds (0 when absent).
TokenBodies == { [ token |-> "tok", expiresIn |-> 0 ],
                 [ token |-> "tok", expiresIn |-> 30 ],
                 [ token |-> "tok", expiresIn |-> 90 ],
                 [ token |-> "", expiresIn |-> 90 ] }

\* Exit codes of a child that exits normally.
ExitCodes == { 0, 7 }

\* ---------------------------------------------------------------- state

VARIABLES
    pc,          \* position of the main goroutine
    exitStatus,  \* the process's exit status once pc = "exited", else -1
    fatalAt,     \* the position at which a fatal error arose, or "none"
    argc,        \* len(os.Args)
    imageAndTag, \* os.Args[2]
    devMajor,    \* the major number setupDevices passes to mkdev
    devMinor,    \* the minor number setupDevices passes to mkdev
    image,       \* dl.image
    tag,         \* dl.tag
    token,       \* dl.token
    tokenExp,    \* dl.tokenExp, seconds
    clock,       \* time.Now(), seconds
    rtCaller,    \* the function that called refreshToken
    call,        \* history: the authorized call in progress, if any
    lastReq,     \* history: the registry request in flight, if any
    manifests,   \* getDigests' local manifests.Manifests
    digestArg,   \* getLayers' parameter digest
    reqDigests,  \* history: the digests getLayers asked the layer list of
    layers,      \* DownloadAndUnpackLayers' local layers.Layers
    li,          \* index in layers of the layer of the current iteration
    events,      \* history: the layer steps taken, in order
    rootPath,    \* env.rootPath (<<>> is the empty string)
    fs,          \* the host's file tree: absolute host path -> node
    procRoot,    \* the host path of the process's root directory
    cwd,         \* the process's working directory, as a host path
    pidns,       \* whether the process has unshared its PID namespace
    closeRet,    \* what env.Close returned: "none" before it is called, "nil", "err"
    child,       \* the child process
    pipes,       \* the stdout and stderr pipes between child and parent
    readers,     \* the two goroutines that drain the pipes
    parent       \* RunCommand's locals and the parent's own output

ctlVars == << pc, exitStatus, fatalAt >>
argVars == << argc, imageAndTag, devMajor, devMinor >>
dlVars  == << image, tag, token, tokenExp, rtCaller, call, lastReq >>
regVars == << manifests, digestArg, reqDigests, layers, li, events >>
fsVars  == << rootPath, fs >>
isoVars == << procRoot, cwd, pidns >>
runVars == << child, pipes, readers, parent >>

vars == << ctlVars, argVars, dlVars, clock, regVars, fsVars, isoVars,
           closeRet, runVars >>

\* ------------------------------------------------------------- helpers

Streams == { "stdout", "stderr" }

\* The index of the first element of s at or after i that equals c, or 0.
RECURSIVE FirstIndex(_, _, _)
FirstIndex(s, c, i) ==
    IF i > Len(s) THEN 0
    ELSE IF s[i] = c THEN i
    ELSE FirstIndex(s, c, i + 1)

\* strings.SplitN(s, ":", 2): s whole when it holds no colon, else the text
\* before the first colon and the text after it.
SplitN2(s) ==
    LET i == FirstIndex(s, ":", 1)
    IN  IF i = 0 THEN << s >>
        ELSE << SubSeq(s, 1, i - 1), SubSeq(s, i + 1, Len(s)) >>

\* The tag NewDockerImageDownloader gives a reference without one.
Latest == << "l", "a", "t", "e", "s", "t" >>

\* The absolute host path a path names for a process whose root is root.
Resolve(root, path) == root \o path

\* Whether path p lies at or under path q.
Under(p, q) == Len(p) >= Len(q) /\ SubSeq(p, 1, Len(q)) = q

DirNode == [ kind |-> "dir", v |-> 0 ]
ChrNode(dev) == [ kind |-> "chr", v |-> dev ]
FileNode(content) == [ kind |-> "file", v |-> content ]

\* The tree with node n at path p (created or replaced).
Put(tree, p, n) ==
    [ q \in DOMAIN tree \cup { p } |-> IF q = p THEN n ELSE tree[q] ]

\* The tree without p and everything under it.
RemoveTree(tree, p) ==
    [ q \in { r \in DOMAIN tree : ~Under(r, p) } |-> tree[q] ]

\* os.TempDir() and the directory os.MkdirTemp("", "container-") makes in it.
TempDir == << "tmp" >>
TempName == << "tmp", "container-1" >>

HostRoot == << >>

\* ---------------------------------------------------------------- Init

NoBody == [ token |-> "", expiresIn |-> 0 ]
NoCall == [ fn |-> "none", token |-> "", exp |-> 0, now |-> 0, tokReqs |-> 0,
            body |-> NoBody, at |-> 0, sent |-> FALSE ]
NoReq == [ kind |-> "none", digest |-> "", token |-> "", exp |-> 0, now |-> 0 ]

NoChild == [ state |-> "none", code |-> 0, n |-> 0, pending |-> "none",
             wrote |-> [ s \in Streams |-> << >> ],
             open |-> [ s \in Streams |-> FALSE ] ]
NoReader == [ pc |-> "idle", data |-> << >> ]
NoParent == [ stdoutData |-> << >>, stderrData |-> << >>, exitCode |-> 0,
              out |-> << >>, err |-> << >>, waited |-> FALSE,
              waitFailed |-> FALSE ]

\* The host's file tree before the run: the root and the temporary directory.
HostTree == [ p \in { HostRoot, TempDir } |-> DirNode ]

\* The process before main's first statement, its arguments apart.
Fresh ==
    /\ pc = "main"
    /\ exitStatus = -1
    /\ fatalAt = "none"
    /\ image = << >>
    /\ tag = << >>
    /\ token = ""
    /\ tokenExp = 0
    /\ clock = 0
    /\ rtCaller = "none"
    /\ call = NoCall
    /\ lastReq = NoReq
    /\ manifests = << >>
    /\ digestArg = ""
    /\ reqDigests = << >>
    /\ layers = << >>
    /\ li = 0
    /\ events = << >>
    /\ rootPath = << >>
    /\ fs = HostTree
    /\ procRoot = HostRoot
    /\ cwd = HostRoot
    /\ pidns = FALSE
    /\ closeRet = "none"
    /\ child = NoChild
    /\ pipes = [ s \in Streams |-> << >> ]
    /\ readers = [ s \in Streams |-> NoReader ]
    /\ parent = NoParent

Init ==
    /\ argc \in ArgCounts
    /\ imageAndTag \in ImageRefs
    /\ devMajor = NullMajor
    /\ devMinor = NullMinor
    /\ Fresh

\* ------------------------------------------------------- process control

\* log.Fatal, and an error that NewContainerEnvironment returns to main, which
\* passes it to log.Fatal: the process ends at once with status 1. No deferred
\* call and no Close runs.
Fatal(at) ==
    /\ pc' = "exited"
    /\ exitStatus' = FatalStatus
    /\ fatalAt' = at

Goto(next) ==
    /\ pc' = next
    /\ UNCHANGED << exitStatus, fatalAt >>

\* os.Exit(code): the status the host sees is the low byte of code.
ExitStatusOf(code) == code % 256

\* main: the argument check.
MainStart ==
    /\ pc = "main"
    /\ IF argc < MinArgs
         THEN Fatal("main")
         ELSE Goto("NewDockerImageDownloader")
    /\ UNCHANGED << argVars, dlVars, clock, regVars, fsVars, isoVars,
                    closeRet, runVars >>

\* ------------------------------------------------ DockerImageDownloader

\* ParseImage with an empty tag after the colon kept as the tag.
ParseImageEmptyTagKept(s) ==
    LET parts == SplitN2(s)
    IN  IF Len(parts) = 0 \/ parts[1] = << >>
          THEN << FALSE, << >>, << >> >>
          ELSE << TRUE, parts[1],
                  IF Len(parts) > 1 THEN parts[2] ELSE Latest >>
\* NewDockerImageDownloader's parse of imageAndTag: << ok, image, tag >>.
ParseImage(s) ==
    LET parts == SplitN2(s)
    IN  IF Len(parts) = 0 \/ parts[1] = << >>
          THEN << FALSE, << >>, << >> >>
          ELSE << TRUE, parts[1],
                  IF Len(parts) > 1 /\ parts[2] # << >> THEN parts[2] ELSE Latest >>

\* NewDockerImageDownloader without the test of the image name: a reference
\* that does not parse goes on to refreshToken with what SplitN gave.
NewDockerImageDownloaderUnchecked ==
    /\ pc = "NewDockerImageDownloader"
    /\ LET r == ParseImage(imageAndTag)
       IN  /\ image' = r[2]
           /\ tag' = IF r[1] THEN r[3] ELSE Latest
           /\ rtCaller' = "NewDockerImageDownloader"
           /\ Goto("refreshToken")
    /\ UNCHANGED << argVars, token, tokenExp, call, lastReq, clock, regVars,
                    fsVars, isoVars, closeRet, runVars >>
\* NewDockerImageDownloader up to its call of refreshToken.
NewDockerImageDownloader ==
    /\ pc = "NewDockerImageDownloader"
    /\ LET r == ParseImage(imageAndTag)
       IN  IF r[1]
             THEN /\ image' = r[2]
                  /\ tag' = r[3]
                  /\ rtCaller' = "NewDockerImageDownloader"
                  /\ Goto("refreshToken")
             ELSE /\ Fatal("NewDockerImageDownloader")
                  /\ UNCHANGED << image, tag, rtCaller >>
    /\ UNCHANGED << argVars, token, tokenExp, call, lastReq, clock, regVars,
                    fsVars, isoVars, closeRet, runVars >>

\* TokenValid without the test of the expiry.
TokenValidIgnoringExpiry(tok, exp, now) == tok # ""

\* refreshToken's guard: the cached token is set and not yet expired.
TokenValid(tok, exp, now) == tok # "" /\ now < exp

\* The expiry refreshToken computes from expires_in at time now.
TokenExpiry(expiresIn, now) ==
    IF expiresIn > 0 THEN now + (expiresIn - GraceSeconds)
    ELSE now + DefaultLifetime

\* Where a caller of refreshToken goes on when it returns nil.
AfterRefresh(caller) ==
    CASE caller = "NewDockerImageDownloader" -> "initFS"
      [] caller = "getDigests" -> "getDigests_send"
      [] caller = "getLayers" -> "getLayers_send"
      [] caller = "downloadLayer" -> "downloadLayer_send"

\* refreshToken's first statement: return at once with a valid token, else
\* send one request to the token endpoint.
RefreshTokenCheck ==
    /\ pc = "refreshToken"
    /\ call' = [ fn |-> rtCaller, token |-> token, exp |-> tokenExp,
                 now |-> clock, sent |-> FALSE, body |-> NoBody, at |-> 0,
                 tokReqs |-> IF TokenValid(token, tokenExp, clock) THEN 0 ELSE 1 ]
    /\ IF TokenValid(token, tokenExp, clock)
         THEN Goto(AfterRefresh(rtCaller))
         ELSE Goto("tokenRequest")
    /\ UNCHANGED << argVars, image, tag, token, tokenExp, rtCaller, lastReq,
                    clock, regVars, fsVars, isoVars, closeRet, runVars >>

\* The token endpoint's answer: a transport error or timeout, a status other
\* than 200, a body that is no JSON, or a token response.
TokenResponse ==
    /\ pc = "tokenRequest"
    /\ \E outcome \in { "neterr", "status", "decode", "ok" } :
         IF outcome = "ok"
           THEN \E body \in TokenBodies :
                  /\ token' = body.token
                  /\ tokenExp' = TokenExpiry(body.expiresIn, clock)
                  /\ call' = [ call EXCEPT !.body = body, !.at = clock ]
                  /\ Goto(AfterRefresh(rtCaller))
           ELSE /\ Fatal("refreshToken")
                /\ UNCHANGED << token, tokenExp, call >>
    /\ UNCHANGED << argVars, image, tag, rtCaller, lastReq, clock,
                    regVars, fsVars, isoVars, closeRet, runVars >>

\* Time passes while the process waits: for a registry answer or for tar.
Waiting == pc \in { "tokenRequest", "manifestRequest", "layersRequest",
                    "blobRequest", "extractTarball" }

Tick ==
    /\ Waiting
    /\ clock < MaxTicks * GraceSeconds
    /\ clock' = clock + GraceSeconds
    /\ UNCHANGED << ctlVars, argVars, dlVars, regVars, fsVars, isoVars,
                    closeRet, runVars >>

\* A call of refreshToken by caller.
CallRefresh(caller) ==
    /\ rtCaller' = caller
    /\ Goto("refreshToken")

\* The request an authorized call sends, with the Authorization header it
\* carries and the time it is sent at.
Request(kind, digest) ==
    [ kind |-> kind, digest |-> digest, token |-> token, exp |-> tokenExp,
      now |-> clock ]

\* ------------------------------------------------------ ContainerEnvironment

\* The bitwise or of two naturals.
RECURSIVE BitOr(_, _)
BitOr(a, b) ==
    IF a = 0 THEN b
    ELSE IF b = 0 THEN a
    ELSE (IF a % 2 = 1 \/ b % 2 = 1 THEN 1 ELSE 0) + 2 * BitOr(a \div 2, b \div 2)

\* mkdev with the major number shifted by four bits.
mkdevShortShift(major, minor) == BitOr(major * 16, minor)

\* mkdev: (uint64(major) << 8) | uint64(minor).
mkdev(major, minor) == BitOr(major * 2^MinorBits, minor)

\* initFS: os.MkdirTemp makes a fresh directory, or fails.
initFS ==
    /\ pc = "initFS"
    /\ \E ok \in BOOLEAN :
         IF ok
           THEN /\ rootPath' = TempName
                /\ fs' = Put(fs, Resolve(procRoot, TempName), DirNode)
                /\ Goto("setupDevices")
           ELSE /\ Fatal("initFS")
                /\ UNCHANGED fsVars
    /\ UNCHANGED << argVars, dlVars, clock, regVars, isoVars, closeRet,
                    runVars >>

\* setupDevices: os.MkdirAll of <root>/dev.
setupDevices ==
    /\ pc = "setupDevices"
    /\ \E ok \in BOOLEAN :
         IF ok
           THEN /\ fs' = Put(fs, Resolve(procRoot, rootPath \o << "dev" >>), DirNode)
                /\ Goto("setupDevices_mknod")
           ELSE /\ Fatal("setupDevices")
                /\ UNCHANGED fs
    /\ UNCHANGED << argVars, dlVars, clock, regVars, rootPath, isoVars,
                    closeRet, runVars >>

\* setupDevices: syscall.Mknod of <root>/dev/null. The directory is fresh, so
\* the node cannot exist yet: the call makes it or fails with another error.
\* On success NewContainerEnvironment goes on to DownloadAndUnpackLayers, which
\* calls getDigests, which calls refreshToken.
setupDevicesMknod ==
    /\ pc = "setupDevices_mknod"
    /\ \E ok \in BOOLEAN :
         IF ok
           THEN /\ fs' = Put(fs, Resolve(procRoot, rootPath \o << "dev", "null" >>),
                             ChrNode(mkdev(devMajor, devMinor)))
                /\ events' = Append(events, << "devices", 0 >>)
                /\ CallRefresh("getDigests")
           ELSE /\ Fatal("setupDevices")
                /\ UNCHANGED << fs, events, rtCaller >>
    /\ UNCHANGED << argVars, image, tag, token, tokenExp, call, lastReq, clock,
                    manifests, digestArg, reqDigests, layers, li, rootPath,
                    isoVars, closeRet, runVars >>

\* ------------------------------------------------------------ the registry

\* Sequences over S of at most n elements, no element twice.
DistinctSeqs(S, n) ==
    { s \in UNION { [ 1..k -> S ] : k \in 0..n } :
        \A i, j \in 1..Len(s) : i # j => s[i] # s[j] }

\* The layer lists a direct manifest can declare.
LayerLists == DistinctSeqs(Digests, MaxLayers)

Platforms == { [ os |-> "linux", arch |-> "amd64" ],
               [ os |-> "linux", arch |-> "arm64" ],
               [ os |-> "windows", arch |-> "amd64" ] }

ManifestEntries ==
    { [ os |-> p.os, arch |-> p.arch, digest |-> d ] :
        p \in Platforms, d \in ManifestDigests }

\* The non-empty fan-out lists a manifest can declare, no digest twice.
ManifestLists ==
    { m \in UNION { [ 1..k -> ManifestEntries ] : k \in 1..MaxManifests } :
        \A i, j \in 1..Len(m) : i # j => m[i].digest # m[j].digest }

\* The layer list the registry holds for a platform manifest.
ManifestLayers(d) ==
    IF d = "sha256:m1" THEN << "sha256:a", "sha256:b" >> ELSE << "sha256:b" >>

\* The manifest bodies that are JSON: a fan-out list, or a layer list (an
\* object with neither key decodes as the empty layer list).
ManifestBodies ==
    { [ manifests |-> m, layers |-> << >> ] : m \in ManifestLists }
      \cup { [ manifests |-> << >>, layers |-> l ] : l \in LayerLists }

\* PlatformMatches with the architecture left out of the test.
PlatformMatchesOsOnly(e) == e.os = GOOS

\* getDigests' test of a fan-out entry against the host.
PlatformMatches(e) == e.os = GOOS /\ e.arch = GOARCH

\* getDigests' loop over a fan-out list: the index of the entry it takes, or 0.
RECURSIVE SelectFrom(_, _)
SelectFrom(list, i) ==
    IF i > Len(list) THEN 0
    ELSE IF PlatformMatches(list[i]) THEN i
    ELSE SelectFrom(list, i + 1)
SelectManifest(list) == SelectFrom(list, 1)

\* getDigests sends the manifest request.
getDigestsSend ==
    /\ pc = "getDigests_send"
    /\ lastReq' = Request("manifest", "")
    /\ call' = [ call EXCEPT !.sent = TRUE ]
    /\ Goto("manifestRequest")
    /\ UNCHANGED << argVars, image, tag, token, tokenExp, rtCaller, clock,
                    regVars, fsVars, isoVars, closeRet, runVars >>

\* The manifest answer and getDigests' handling of it, up to its return or
\* its call of getLayers (which calls refreshToken).
ManifestResponse ==
    /\ pc = "manifestRequest"
    /\ \E outcome \in { "neterr", "status", "malformed", "json" } :
         IF outcome = "json"
           THEN \E body \in ManifestBodies :
                  IF Len(body.manifests) > 0
                    THEN LET i == SelectManifest(body.manifests)
                         IN  /\ manifests' = body.manifests
                             /\ UNCHANGED << layers, li >>
                             /\ IF i # 0
                                  THEN /\ digestArg' = body.manifests[i].digest
                                       /\ CallRefresh("getLayers")
                                  ELSE /\ Fatal("platformNotFound")
                                       /\ UNCHANGED << digestArg, rtCaller >>
                    ELSE /\ layers' = body.layers
                         /\ li' = 1
                         /\ Goto("loop")
                         /\ UNCHANGED << manifests, digestArg, rtCaller >>
           ELSE /\ Fatal("getDigests")
                /\ UNCHANGED << manifests, digestArg, layers, li, rtCaller >>
    /\ call' = NoCall
    /\ lastReq' = NoReq
    /\ UNCHANGED << argVars, image, tag, token, tokenExp, clock, reqDigests,
                    events, fsVars, isoVars, closeRet, runVars >>

\* getLayers sends the request for the manifest of its digest.
getLayersSend ==
    /\ pc = "getLayers_send"
    /\ lastReq' = Request("layers", digestArg)
    /\ call' = [ call EXCEPT !.sent = TRUE ]
    /\ reqDigests' = Append(reqDigests, digestArg)
    /\ Goto("layersRequest")
    /\ UNCHANGED << argVars, image, tag, token, tokenExp, rtCaller, clock,
                    manifests, digestArg, layers, li, events, fsVars, isoVars,
                    closeRet, runVars >>

\* The answer to getLayers; getDigests returns what getLayers returns, and its
\* locals end with it.
LayersResponse ==
    /\ pc = "layersRequest"
    /\ \E outcome \in { "neterr", "status", "malformed", "json" } :
         IF outcome = "json"
           THEN /\ layers' = ManifestLayers(digestArg)
                /\ li' = 1
                /\ manifests' = << >>
                /\ digestArg' = ""
                /\ Goto("loop")
           ELSE /\ Fatal("getLayers")
                /\ UNCHANGED << manifests, digestArg, layers, li >>
    /\ call' = NoCall
    /\ lastReq' = NoReq
    /\ UNCHANGED << argVars, image, tag, token, tokenExp, rtCaller, clock,
                    reqDigests, events, fsVars, isoVars, closeRet, runVars >>

\* ------------------------------------------------- DownloadAndUnpackLayers

\* strings.Replace(digest, "sha256:", "", 1) followed by ".tar.gz": the file
\* name of a layer's tarball.
TarballName(d) ==
    CASE d = "sha256:a" -> "a.tar.gz"
      [] d = "sha256:b" -> "b.tar.gz"
      [] OTHER -> d \o ".tar.gz"

\* filepath.Join(destDir, TarballName(d)), with destDir = env.rootPath.
TarballPath(d) == rootPath \o << TarballName(d) >>

\* The entries of a layer's archive: relative path -> node. Both layers hold
\* etc/issue, with different content.
LayerFiles(d) ==
    IF d = "sha256:a"
      THEN ( << "bin" >> :> DirNode ) @@ ( << "bin", "sh" >> :> FileNode(1) )
           @@ ( << "etc" >> :> DirNode ) @@ ( << "etc", "issue" >> :> FileNode(1) )
      ELSE ( << "etc" >> :> DirNode ) @@ ( << "etc", "issue" >> :> FileNode(2) )

\* Overlay with an entry that is already in the tree left as it is.
OverlayKeepingExisting(tree, base, files) ==
    LET new == { base \o p : p \in DOMAIN files }
    IN  [ q \in DOMAIN tree \cup new |->
            IF q \in DOMAIN tree
              THEN tree[q]
              ELSE files[SubSeq(q, Len(base) + 1, Len(q))] ]
\* tar -C base -x: every entry of the archive created or replaced under base.
Overlay(tree, base, files) ==
    LET new == { base \o p : p \in DOMAIN files }
    IN  [ q \in DOMAIN tree \cup new |->
            IF q \in new
              THEN files[SubSeq(q, Len(base) + 1, Len(q))]
              ELSE tree[q] ]

\* The head of the loop over layers.Layers: the next layer's downloadLayer
\* (which calls refreshToken), or the return of nil, on which
\* NewContainerEnvironment returns env and main calls RunCommand.
LoopHead ==
    /\ pc = "loop"
    /\ IF li <= Len(layers)
         THEN CallRefresh("downloadLayer")
         ELSE /\ Goto("prepare")
              /\ UNCHANGED rtCaller
    /\ UNCHANGED << argVars, image, tag, token, tokenExp, call, lastReq, clock,
                    regVars, fsVars, isoVars, closeRet, runVars >>

\* downloadLayer sends the blob request.
downloadLayerSend ==
    /\ pc = "downloadLayer_send"
    /\ lastReq' = Request("blob", layers[li])
    /\ call' = [ call EXCEPT !.sent = TRUE ]
    /\ events' = Append(events, << "download", li >>)
    /\ Goto("blobRequest")
    /\ UNCHANGED << argVars, image, tag, token, tokenExp, rtCaller, clock,
                    manifests, digestArg, reqDigests, layers, li, fsVars,
                    isoVars, closeRet, runVars >>

\* BlobResponse with a failed download tried again.
BlobResponseRetrying ==
    /\ pc = "blobRequest"
    /\ \E outcome \in { "neterr", "status", "create", "copy", "ok" } :
         /\ IF outcome \in { "copy", "ok" }
              THEN fs' = Put(fs, Resolve(procRoot, TarballPath(layers[li])),
                             FileNode(0))
              ELSE UNCHANGED fs
         /\ IF outcome = "ok"
              THEN Goto("extractTarball")
              ELSE Goto("downloadLayer_send")
    /\ call' = NoCall
    /\ lastReq' = NoReq
    /\ UNCHANGED << argVars, image, tag, token, tokenExp, rtCaller, clock,
                    regVars, rootPath, isoVars, closeRet, runVars >>
\* The blob answer and the rest of downloadLayer: os.Create of the tarball and
\* io.Copy of the body into it. A failed copy leaves the file behind.
BlobResponse ==
    /\ pc = "blobRequest"
    /\ \E outcome \in { "neterr", "status", "create", "copy", "ok" } :
         /\ IF outcome \in { "copy", "ok" }
              THEN fs' = Put(fs, Resolve(procRoot, TarballPath(layers[li])),
                             FileNode(0))
              ELSE UNCHANGED fs
         /\ IF outcome = "ok"
              THEN Goto("extractTarball")
              ELSE Fatal("downloadLayer")
    /\ call' = NoCall
    /\ lastReq' = NoReq
    /\ UNCHANGED << argVars, image, tag, token, tokenExp, rtCaller, clock,
                    regVars, rootPath, isoVars, closeRet, runVars >>

\* extractTarball with its error dropped: the loop goes on after a failed tar.
extractTarballErrorDropped ==
    /\ pc = "extractTarball"
    /\ \E ok \in BOOLEAN :
         IF ok
           THEN /\ fs' = Overlay(fs, Resolve(procRoot, rootPath),
                                 LayerFiles(layers[li]))
                /\ events' = Append(events, << "extract", li >>)
           ELSE UNCHANGED << fs, events >>
    /\ Goto("removeTarball")
    /\ UNCHANGED << argVars, dlVars, clock, manifests, digestArg, reqDigests,
                    layers, li, rootPath, isoVars, closeRet, runVars >>

\* extractTarball: tar -C destDir -xzf tarballPath, which succeeds or fails.
extractTarball ==
    /\ pc = "extractTarball"
    /\ \E ok \in BOOLEAN :
         IF ok
           THEN /\ fs' = Overlay(fs, Resolve(procRoot, rootPath),
                                 LayerFiles(layers[li]))
                /\ events' = Append(events, << "extract", li >>)
                /\ Goto("removeTarball")
           ELSE /\ Fatal("extractTarball")
                /\ UNCHANGED << fs, events >>
    /\ UNCHANGED << argVars, dlVars, clock, manifests, digestArg, reqDigests,
                    layers, li, rootPath, isoVars, closeRet, runVars >>

\* removeTarball with the loop stepping over the layer that follows.
removeTarballSkippingNext ==
    /\ pc = "removeTarball"
    /\ \E ok \in BOOLEAN :
         IF ok
           THEN /\ fs' = RemoveTree(fs, Resolve(procRoot, TarballPath(layers[li])))
                /\ events' = Append(events, << "remove", li >>)
           ELSE /\ UNCHANGED fs
                /\ events' = Append(events, << "removeFailed", li >>)
    /\ li' = li + 2
    /\ Goto("loop")
    /\ UNCHANGED << argVars, dlVars, clock, manifests, digestArg, reqDigests,
                    layers, rootPath, isoVars, closeRet, runVars >>

\* removeTarball with a failed removal ending construction.
removeTarballFailureFatal ==
    /\ pc = "removeTarball"
    /\ \E ok \in BOOLEAN :
         IF ok
           THEN /\ fs' = RemoveTree(fs, Resolve(procRoot, TarballPath(layers[li])))
                /\ events' = Append(events, << "remove", li >>)
                /\ li' = li + 1
                /\ Goto("loop")
           ELSE /\ Fatal("removeTarball")
                /\ UNCHANGED << fs, events, li >>
    /\ UNCHANGED << argVars, dlVars, clock, manifests, digestArg, reqDigests,
                    layers, rootPath, isoVars, closeRet, runVars >>
\* os.Remove(tarballPath): a failure is logged and the loop goes on.
removeTarball ==
    /\ pc = "removeTarball"
    /\ \E ok \in BOOLEAN :
         IF ok
           THEN /\ fs' = RemoveTree(fs, Resolve(procRoot, TarballPath(layers[li])))
                /\ events' = Append(events, << "remove", li >>)
           ELSE /\ UNCHANGED fs
                /\ events' = Append(events, << "removeFailed", li >>)
    /\ li' = li + 1
    /\ Goto("loop")
    /\ UNCHANGED << argVars, dlVars, clock, manifests, digestArg, reqDigests,
                    layers, rootPath, isoVars, closeRet, runVars >>

\* ------------------------------------------------------------- RunCommand

\* prepare: syscall.Chroot(env.rootPath). The working directory stays where
\* it was.
prepareChroot ==
    /\ pc = "prepare"
    /\ \E ok \in BOOLEAN :
         IF ok
           THEN /\ procRoot' = Resolve(procRoot, rootPath)
                /\ Goto("prepare_chdir")
           ELSE /\ Fatal("prepare")
                /\ UNCHANGED procRoot
    /\ UNCHANGED << argVars, dlVars, clock, regVars, fsVars, cwd, pidns,
                    closeRet, runVars >>

\* prepare without its change of directory.
prepareChdirSkipped ==
    /\ pc = "prepare_chdir"
    /\ \E ok \in BOOLEAN :
         IF ok
           THEN /\ UNCHANGED cwd
                /\ Goto("prepare_unshare")
           ELSE /\ Fatal("prepare")
                /\ UNCHANGED cwd
    /\ UNCHANGED << argVars, dlVars, clock, regVars, fsVars, procRoot, pidns,
                    closeRet, runVars >>
\* prepare: syscall.Chdir("/").
prepareChdir ==
    /\ pc = "prepare_chdir"
    /\ \E ok \in BOOLEAN :
         IF ok
           THEN /\ cwd' = Resolve(procRoot, << >>)
                /\ Goto("prepare_unshare")
           ELSE /\ Fatal("prepare")
                /\ UNCHANGED cwd
    /\ UNCHANGED << argVars, dlVars, clock, regVars, fsVars, procRoot, pidns,
                    closeRet, runVars >>

\* prepare: syscall.Unshare(syscall.CLONE_NEWPID).
prepareUnshare ==
    /\ pc = "prepare_unshare"
    /\ \E ok \in BOOLEAN :
         IF ok
           THEN /\ pidns' = TRUE
                /\ Goto("pipes")
           ELSE /\ Fatal("prepare")
                /\ UNCHANGED pidns
    /\ UNCHANGED << argVars, dlVars, clock, regVars, fsVars, procRoot, cwd,
                    closeRet, runVars >>

\* cmd.StdoutPipe() and cmd.StderrPipe(): either can fail to make its pipe.
makePipes ==
    /\ pc = "pipes"
    /\ \E outPipe \in BOOLEAN, errPipe \in BOOLEAN :
         IF outPipe /\ errPipe
           THEN Goto("Start")
           ELSE Fatal("pipes")
    /\ UNCHANGED << argVars, dlVars, clock, regVars, fsVars, isoVars,
                    closeRet, runVars >>

\* cmd.Start(), and on success the two go statements that start the readers;
\* the parent then blocks on <-stdoutCh.
Start ==
    /\ pc = "Start"
    /\ \E ok \in BOOLEAN :
         IF ok
           THEN /\ child' = [ child EXCEPT !.state = "running",
                                           !.open = [ s \in Streams |-> TRUE ] ]
                /\ readers' = [ s \in Streams |-> [ pc |-> "read", data |-> << >> ] ]
                /\ Goto("recvStdout")
           ELSE /\ Fatal("Start")
                /\ UNCHANGED << child, readers >>
    /\ UNCHANGED << argVars, dlVars, clock, regVars, fsVars, isoVars,
                    closeRet, pipes, parent >>

\* The child enters a write of one byte to a stream it has open. Until the
\* write completes the child does nothing else.
ChildBegin(s) ==
    /\ child.state = "running"
    /\ child.pending = "none"
    /\ child.open[s]
    /\ child.n < MaxChildWrites
    /\ child' = [ child EXCEPT !.pending = s ]
    /\ UNCHANGED << ctlVars, argVars, dlVars, clock, regVars, fsVars, isoVars,
                    closeRet, pipes, readers, parent >>

\* The child's write completes once the pipe has room; a write to a full
\* pipe blocks. The k-th byte the child writes is k.
ChildWrite(s) ==
    /\ child.state = "running"
    /\ child.pending = s
    /\ Len(pipes[s]) < PipeCap
    /\ child' = [ child EXCEPT !.n = @ + 1, !.pending = "none",
                               !.wrote[s] = Append(@, child.n + 1) ]
    /\ pipes' = [ pipes EXCEPT ![s] = Append(@, child.n + 1) ]
    /\ UNCHANGED << ctlVars, argVars, dlVars, clock, regVars, fsVars, isoVars,
                    closeRet, readers, parent >>

\* The child closes one of its streams and goes on running.
ChildClose(s) ==
    /\ child.state = "running"
    /\ child.pending = "none"
    /\ child.open[s]
    /\ child' = [ child EXCEPT !.open[s] = FALSE ]
    /\ UNCHANGED << ctlVars, argVars, dlVars, clock, regVars, fsVars, isoVars,
                    closeRet, pipes, readers, parent >>

\* The child exits with a code; its streams close with it. A child blocked in
\* a write cannot exit.
ChildExit ==
    /\ child.state = "running"
    /\ child.pending = "none"
    /\ \E c \in ExitCodes :
         child' = [ child EXCEPT !.state = "exited", !.code = c,
                                 !.open = [ s \in Streams |-> FALSE ] ]
    /\ UNCHANGED << ctlVars, argVars, dlVars, clock, regVars, fsVars, isoVars,
                    closeRet, pipes, readers, parent >>

\* A signal kills the child, at any time; its streams close with it.
ChildKilled ==
    /\ child.state = "running"
    /\ child' = [ child EXCEPT !.state = "signaled", !.pending = "none",
                               !.open = [ s \in Streams |-> FALSE ] ]
    /\ UNCHANGED << ctlVars, argVars, dlVars, clock, regVars, fsVars, isoVars,
                    closeRet, pipes, readers, parent >>

\* ReaderRead with the two streams read one after the other: stderr is read
\* only once the read of stdout has reached end of file.
ReaderReadSequential(s) ==
    /\ readers[s].pc = "read"
    /\ s = "stderr" => readers["stdout"].pc # "read"
    /\ pipes[s] # << >>
    /\ readers' = [ readers EXCEPT ![s].data = @ \o pipes[s] ]
    /\ pipes' = [ pipes EXCEPT ![s] = << >> ]
    /\ UNCHANGED << ctlVars, argVars, dlVars, clock, regVars, fsVars, isoVars,
                    closeRet, child, parent >>

\* io.ReadAll in a reader goroutine: one read takes what the pipe holds.
ReaderRead(s) ==
    /\ readers[s].pc = "read"
    /\ pipes[s] # << >>
    /\ readers' = [ readers EXCEPT ![s].data = @ \o pipes[s] ]
    /\ pipes' = [ pipes EXCEPT ![s] = << >> ]
    /\ UNCHANGED << ctlVars, argVars, dlVars, clock, regVars, fsVars, isoVars,
                    closeRet, child, parent >>

\* io.ReadAll returns at end of file: the pipe is empty and its write end is
\* closed. The goroutine then blocks on its channel send.
ReaderEOF(s) ==
    /\ readers[s].pc = "read"
    /\ pipes[s] = << >>
    /\ ~child.open[s]
    /\ readers' = [ readers EXCEPT ![s].pc = "send" ]
    /\ UNCHANGED << ctlVars, argVars, dlVars, clock, regVars, fsVars, isoVars,
                    closeRet, child, pipes, parent >>

\* stdoutData := <-stdoutCh: the unbuffered channel hands over when the
\* reader is at its send.
RecvStdout ==
    /\ pc = "recvStdout"
    /\ readers["stdout"].pc = "send"
    /\ parent' = [ parent EXCEPT !.stdoutData = readers["stdout"].data ]
    /\ readers' = [ readers EXCEPT !["stdout"].pc = "done" ]
    /\ Goto("recvStderr")
    /\ UNCHANGED << argVars, dlVars, clock, regVars, fsVars, isoVars,
                    closeRet, child, pipes >>

\* stderrData := <-stderrCh.
RecvStderr ==
    /\ pc = "recvStderr"
    /\ readers["stderr"].pc = "send"
    /\ parent' = [ parent EXCEPT !.stderrData = readers["stderr"].data ]
    /\ readers' = [ readers EXCEPT !["stderr"].pc = "done" ]
    /\ Goto("Wait")
    /\ UNCHANGED << argVars, dlVars, clock, regVars, fsVars, isoVars,
                    closeRet, child, pipes >>

\* (*exec.ExitError).ExitCode(): the exit code of a process that exited, -1
\* of one a signal killed.
ExitCode(state, code) == IF state = "exited" THEN code ELSE -1

\* WaitCode with every error of cmd.Wait() mapped to the fallback code.
WaitCodeAlwaysFallback(state, code, waitFailed) ==
    IF state = "exited" /\ code = 0 /\ ~waitFailed THEN 0 ELSE FallbackCode

\* The exit code RunCommand takes from cmd.Wait(): 0 when Wait returns nil,
\* the ExitError's ExitCode when it returns one, 1 for any other error.
WaitCode(state, code, waitFailed) ==
    IF waitFailed THEN FallbackCode
    ELSE IF state = "exited" /\ code = 0 THEN 0
    ELSE ExitCode(state, code)

\* cmd.Wait() returns once the child has terminated; the wait itself can fail.
Wait ==
    /\ pc = "Wait"
    /\ child.state \in { "exited", "signaled" }
    /\ \E waitFailed \in BOOLEAN :
         parent' = [ parent EXCEPT
                       !.waited = TRUE,
                       !.waitFailed = waitFailed,
                       !.exitCode = WaitCode(child.state, child.code, waitFailed) ]
    /\ Goto("print")
    /\ UNCHANGED << argVars, dlVars, clock, regVars, fsVars, isoVars,
                    closeRet, child, pipes, readers >>

\* fmt.Print(string(b)) with one string operand writes the bytes of b.
FmtPrint(b) == b

\* PrintOutput with the two captured buffers written to each other's stream.
PrintOutputSwapped ==
    /\ pc = "print"
    /\ parent' = [ parent EXCEPT !.out = @ \o FmtPrint(parent.stderrData),
                                 !.err = @ \o FmtPrint(parent.stdoutData) ]
    /\ Goto("Close")
    /\ UNCHANGED << argVars, dlVars, clock, regVars, fsVars, isoVars,
                    closeRet, child, pipes, readers >>

\* fmt.Print(string(stdoutData)); fmt.Fprint(os.Stderr, string(stderrData));
\* RunCommand returns exitCode to main.
PrintOutput ==
    /\ pc = "print"
    /\ parent' = [ parent EXCEPT !.out = @ \o FmtPrint(parent.stdoutData),
                                 !.err = @ \o FmtPrint(parent.stderrData) ]
    /\ Goto("Close")
    /\ UNCHANGED << argVars, dlVars, clock, regVars, fsVars, isoVars,
                    closeRet, child, pipes, readers >>

\* ------------------------------------------------------- Close and exit

\* Close: os.RemoveAll(env.rootPath), the path resolved against the root the
\* process has now. RemoveAll of a path that does not exist removes nothing
\* and returns nil. main logs an error and goes on.
Close ==
    /\ pc = "Close"
    /\ IF rootPath = << >>
         THEN /\ closeRet' = "nil"
              /\ UNCHANGED fs
         ELSE \E ok \in BOOLEAN :
                IF ok THEN /\ closeRet' = "nil"
                           /\ fs' = RemoveTree(fs, Resolve(procRoot, rootPath))
                ELSE /\ closeRet' = "err"
                     /\ UNCHANGED fs
    /\ Goto("Exit")
    /\ UNCHANGED << argVars, dlVars, clock, regVars, rootPath, isoVars,
                    runVars >>

\* Exit with a failed Close turned into the failure status.
ExitFailingOnCloseError ==
    /\ pc = "Exit"
    /\ pc' = "exited"
    /\ exitStatus' = IF closeRet = "err" THEN FatalStatus
                     ELSE ExitStatusOf(parent.exitCode)
    /\ UNCHANGED << fatalAt, argVars, dlVars, clock, regVars, fsVars, isoVars,
                    closeRet, runVars >>
\* os.Exit(code).
Exit ==
    /\ pc = "Exit"
    /\ pc' = "exited"
    /\ exitStatus' = ExitStatusOf(parent.exitCode)
    /\ UNCHANGED << fatalAt, argVars, dlVars, clock, regVars, fsVars, isoVars,
                    closeRet, runVars >>

Next ==
    \/ MainStart
    \/ NewDockerImageDownloader
    \/ RefreshTokenCheck
    \/ TokenResponse
    \/ Tick
    \/ initFS
    \/ setupDevices
    \/ setupDevicesMknod
    \/ getDigestsSend
    \/ ManifestResponse
    \/ getLayersSend
    \/ LayersResponse
    \/ LoopHead
    \/ downloadLayerSend
    \/ BlobResponse
    \/ extractTarball
    \/ removeTarball
    \/ prepareChroot
    \/ prepareChdir
    \/ prepareUnshare
    \/ makePipes
    \/ Start
    \/ \E s \in Streams : ChildBegin(s)
    \/ \E s \in Streams : ChildWrite(s)
    \/ \E s \in Streams : ChildClose(s)
    \/ ChildExit
    \/ ChildKilled
    \/ \E s \in Streams : ReaderRead(s)
    \/ \E s \in Streams : ReaderEOF(s)
    \/ RecvStdout
    \/ RecvStderr
    \/ Wait
    \/ PrintOutput
    \/ Close
    \/ Exit

Spec == Init /\ [][Next]_vars

\* The steps of the main goroutine, of a reader goroutine and of the child.
MainStep ==
    \/ MainStart \/ NewDockerImageDownloader \/ RefreshTokenCheck
    \/ TokenResponse \/ initFS \/ setupDevices \/ setupDevicesMknod
    \/ getDigestsSend \/ ManifestResponse \/ getLayersSend \/ LayersResponse
    \/ LoopHead \/ downloadLayerSend \/ BlobResponse \/ extractTarball
    \/ removeTarball \/ prepareChroot \/ prepareChdir \/ prepareUnshare
    \/ makePipes \/ Start \/ RecvStdout \/ RecvStderr \/ Wait \/ PrintOutput
    \/ Close \/ Exit
ReaderStep(s) == ReaderRead(s) \/ ReaderEOF(s)
ChildStep ==
    \/ \E s \in Streams : ChildBegin(s) \/ ChildWrite(s) \/ ChildClose(s)
    \/ ChildExit

\* The scheduler runs every goroutine that can take a step, every request is
\* answered or times out, and a child that is not blocked goes on until it
\* exits. Nothing obliges a signal to arrive or the clock to be read.
FairSpec ==
    /\ Spec
    /\ WF_vars(MainStep)
    /\ \A s \in Streams : WF_vars(ReaderStep(s))
    /\ WF_vars(ChildStep)

\* ------------------------------------------------- the parse on its own

\* Every image reference of at most MaxRefLen characters over a name
\* character, a tag character and the colon.
RefChars == { "a", "t", ":" }
ParseRefs == UNION { [ 1..k -> RefChars ] : k \in 0..MaxRefLen }

\* A run given any such reference, up to the end of the parse.
ParseInit ==
    /\ argc = MinArgs
    /\ imageAndTag \in ParseRefs
    /\ devMajor = NullMajor
    /\ devMinor = NullMinor
    /\ Fresh
ParseNext == MainStart \/ NewDockerImageDownloader
ParseSpec == ParseInit /\ [][ParseNext]_vars
\* ------------------------------------------------- mkdev on its own

\* The numbers a field of MinorBits bits holds.
DevNumbers == 0..( 2^MinorBits - 1 )

\* setupDevices at its call of mkdev, in a run that started with a:t and got
\* a token at once, with any major and minor number as the arguments.
MkdevInit ==
    /\ devMajor \in DevNumbers
    /\ devMinor \in DevNumbers
    /\ pc = "setupDevices_mknod"
    /\ exitStatus = -1
    /\ fatalAt = "none"
    /\ argc = MinArgs
    /\ imageAndTag = << "a", ":", "t" >>
    /\ image = << "a" >>
    /\ tag = << "t" >>
    /\ token = "tok"
    /\ tokenExp = DefaultLifetime
    /\ clock = 0
    /\ rtCaller = "NewDockerImageDownloader"
    /\ call = [ NoCall EXCEPT !.fn = "NewDockerImageDownloader", !.tokReqs = 1,
                              !.body = [ token |-> "tok", expiresIn |-> 0 ] ]
    /\ lastReq = NoReq
    /\ manifests = << >>
    /\ digestArg = ""
    /\ reqDigests = << >>
    /\ layers = << >>
    /\ li = 0
    /\ events = << >>
    /\ rootPath = TempName
    /\ fs = Put(Put(HostTree, TempName, DirNode), TempName \o << "dev" >>, DirNode)
    /\ procRoot = HostRoot
    /\ cwd = HostRoot
    /\ pidns = FALSE
    /\ closeRet = "none"
    /\ child = NoChild
    /\ pipes = [ s \in Streams |-> << >> ]
    /\ readers = [ s \in Streams |-> NoReader ]
    /\ parent = NoParent
MkdevNext == setupDevicesMknod
MkdevSpec == MkdevInit /\ [][MkdevNext]_vars
\* ------------------------------------ RunCommand of src/unnamed/part_000

\* The earlier RunCommand reads the two pipes itself, stdout to its end and
\* then stderr, with no goroutine. Its positions are these.
Part000Positions == { "p0_chroot", "p0_chdir", "p0_unshare", "p0_pipes",
                      "p0_Start", "p0_readStdout", "p0_readStderr", "p0_Wait",
                      "p0_print", "p0_returned" }

\* The position at which RunCommand reads a stream, and the one after it.
Part000ReadPos(s) == IF s = "stdout" THEN "p0_readStdout" ELSE "p0_readStderr"
Part000AfterRead(s) == IF s = "stdout" THEN "p0_readStderr" ELSE "p0_Wait"

\* The call of RunCommand on an environment NewContainerEnvironment has
\* built: env.path is the temporary directory, which holds /dev/null and the
\* files of one layer.
Part000Init ==
    /\ pc = "p0_chroot"
    /\ exitStatus = -1
    /\ fatalAt = "none"
    /\ argc = MinArgs
    /\ imageAndTag = << "a", ":", "t" >>
    /\ devMajor = NullMajor
    /\ devMinor = NullMinor
    /\ image = << "a" >>
    /\ tag = << "t" >>
    /\ token = "tok"
    /\ tokenExp = DefaultLifetime
    /\ clock = 0
    /\ rtCaller = "downloadLayer"
    /\ call = NoCall
    /\ lastReq = NoReq
    /\ manifests = << >>
    /\ digestArg = ""
    /\ reqDigests = << >>
    /\ layers = << "sha256:a" >>
    /\ li = 2
    /\ events = << << "devices", 0 >>, << "download", 1 >>,
                   << "extract", 1 >>, << "remove", 1 >> >>
    /\ rootPath = TempName
    /\ fs = Overlay(Put(Put(Put(HostTree, TempName, DirNode),
                            TempName \o << "dev" >>, DirNode),
                        TempName \o << "dev", "null" >>,
                        ChrNode(mkdev(NullMajor, NullMinor))),
                    TempName, LayerFiles("sha256:a"))
    /\ procRoot = HostRoot
    /\ cwd = HostRoot
    /\ pidns = FALSE
    /\ closeRet = "none"
    /\ child = NoChild
    /\ pipes = [ s \in Streams |-> << >> ]
    /\ readers = [ s \in Streams |-> NoReader ]
    /\ parent = NoParent

\* chroot(): syscall.Chroot(env.path).
part000Chroot ==
    /\ pc = "p0_chroot"
    /\ \E ok \in BOOLEAN :
         IF ok
           THEN /\ procRoot' = Resolve(procRoot, rootPath)
                /\ Goto("p0_chdir")
           ELSE /\ Fatal("chroot")
                /\ UNCHANGED procRoot
    /\ UNCHANGED << argVars, dlVars, clock, regVars, fsVars, cwd, pidns,
                    closeRet, runVars >>

\* chroot(): syscall.Chdir("/").
part000Chdir ==
    /\ pc = "p0_chdir"
    /\ \E ok \in BOOLEAN :
         IF ok
           THEN /\ cwd' = Resolve(procRoot, << >>)
                /\ Goto("p0_unshare")
           ELSE /\ Fatal("chroot")
                /\ UNCHANGED cwd
    /\ UNCHANGED << argVars, dlVars, clock, regVars, fsVars, procRoot, pidns,
                    closeRet, runVars >>

\* syscall.Unshare(syscall.CLONE_NEWPID).
part000Unshare ==
    /\ pc = "p0_unshare"
    /\ \E ok \in BOOLEAN :
         IF ok
           THEN /\ pidns' = TRUE
                /\ Goto("p0_pipes")
           ELSE /\ Fatal("unshare")
                /\ UNCHANGED pidns
    /\ UNCHANGED << argVars, dlVars, clock, regVars, fsVars, procRoot, cwd,
                    closeRet, runVars >>

\* cmd.StdoutPipe() and cmd.StderrPipe().
part000Pipes ==
    /\ pc = "p0_pipes"
    /\ \E outPipe \in BOOLEAN, errPipe \in BOOLEAN :
         IF outPipe /\ errPipe
           THEN Goto("p0_Start")
           ELSE Fatal("pipes")
    /\ UNCHANGED << argVars, dlVars, clock, regVars, fsVars, isoVars,
                    closeRet, runVars >>

\* cmd.Start(); on success RunCommand goes on to io.ReadAll(stdout).
part000Start ==
    /\ pc = "p0_Start"
    /\ \E ok \in BOOLEAN :
         IF ok
           THEN /\ child' = [ child EXCEPT !.state = "running",
                                           !.open = [ s \in Streams |-> TRUE ] ]
                /\ Goto("p0_readStdout")
           ELSE /\ Fatal("Start")
                /\ UNCHANGED child
    /\ UNCHANGED << argVars, dlVars, clock, regVars, fsVars, isoVars,
                    closeRet, pipes, readers, parent >>

\* io.ReadAll of a stream, in RunCommand itself: one read takes what the pipe
\* holds.
part000ReadAll(s) ==
    /\ pc = Part000ReadPos(s)
    /\ pipes[s] # << >>
    /\ parent' = IF s = "stdout"
                   THEN [ parent EXCEPT !.stdoutData = @ \o pipes[s] ]
                   ELSE [ parent EXCEPT !.stderrData = @ \o pipes[s] ]
    /\ pipes' = [ pipes EXCEPT ![s] = << >> ]
    /\ UNCHANGED << ctlVars, argVars, dlVars, clock, regVars, fsVars, isoVars,
                    closeRet, child, readers >>

\* io.ReadAll returns at end of file: the pipe is empty and its write end is
\* closed.
part000ReadEOF(s) ==
    /\ pc = Part000ReadPos(s)
    /\ pipes[s] = << >>
    /\ ~child.open[s]
    /\ Goto(Part000AfterRead(s))
    /\ UNCHANGED << argVars, dlVars, clock, regVars, fsVars, isoVars,
                    closeRet, runVars >>

\* cmd.Wait(): exitCode is the ExitError's ExitCode when Wait returns one,
\* and stays 0 when it returns nil or another error.
part000Wait ==
    /\ pc = "p0_Wait"
    /\ child.state \in { "exited", "signaled" }
    /\ \E waitFailed \in BOOLEAN :
         parent' = [ parent EXCEPT
                       !.waited = TRUE,
                       !.waitFailed = waitFailed,
                       !.exitCode = IF waitFailed THEN 0
                                    ELSE ExitCode(child.state, child.code) ]
    /\ Goto("p0_print")
    /\ UNCHANGED << argVars, dlVars, clock, regVars, fsVars, isoVars,
                    closeRet, child, pipes, readers >>

\* fmt.Printf(string(stdoutBytes)) and fmt.Fprint(os.Stderr, ...), whose
\* error is fatal; then RunCommand returns. The bytes of this model are no
\* format verbs, so Printf writes them as they are.
part000Print ==
    /\ pc = "p0_print"
    /\ \E ok \in BOOLEAN :
         IF ok
           THEN /\ parent' = [ parent EXCEPT
                                 !.out = @ \o parent.stdoutData,
                                 !.err = @ \o parent.stderrData ]
                /\ Goto("p0_returned")
           ELSE /\ parent' = [ parent EXCEPT !.out = @ \o parent.stdoutData ]
                /\ Fatal("Fprint")
    /\ UNCHANGED << argVars, dlVars, clock, regVars, fsVars, isoVars,
                    closeRet, child, pipes, readers >>

Part000MainStep ==
    \/ part000Chroot \/ part000Chdir \/ part000Unshare \/ part000Pipes
    \/ part000Start
    \/ \E s \in Streams : part000ReadAll(s) \/ part000ReadEOF(s)
    \/ part000Wait \/ part000Print

Part000Next ==
    \/ part000Chroot
    \/ part000Chdir
    \/ part000Unshare
    \/ part000Pipes
    \/ part000Start
    \/ \E s \in Streams : part000ReadAll(s)
    \/ \E s \in Streams : part000ReadEOF(s)
    \/ part000Wait
    \/ part000Print
    \/ \E s \in Streams : ChildBegin(s)
    \/ \E s \in Streams : ChildWrite(s)
    \/ \E s \in Streams : ChildClose(s)
    \/ ChildExit
    \/ ChildKilled

\* The scheduler runs RunCommand when it can take a step, and a child that is
\* not blocked goes on until it exits.
Part000FairSpec ==
    /\ Part000Init
    /\ [][Part000Next]_vars
    /\ WF_vars(Part000MainStep)
    /\ WF_vars(ChildStep)
\* ====================================================================
\* Properties
\* ====================================================================

\* The sandbox directory, as a host path, and whether the host still has it.
SandboxCreated == rootPath # << >>
SandboxOnHost == TempName \in DOMAIN fs
ChildTerminated == child.state \in { "exited", "signaled" }
Chrooted == procRoot # HostRoot

HasEvent(e) == \E k \in 1..Len(events) : events[k] = e

\* C1: once the process has exited after a run in which the sandbox directory
\* was created and the child was started and terminated, the host no longer
\* has the sandbox directory. (Stated for the runs in which Close returned
\* nil: a failed RemoveAll is not what refutes it.)
C1_SandboxGoneAtExit ==
    ( pc = "exited" /\ SandboxCreated /\ ChildTerminated /\ closeRet = "nil" )
        => ~SandboxOnHost

\* C2: no run reaches process exit with the sandbox directory created and
\* Close not called.
C2_CloseOnEveryExit ==
    ( pc = "exited" /\ SandboxCreated ) => closeRet # "none"

\* C3: the root is switched, and a child started, only after device-node setup
\* succeeded and every layer of the resolved list was extracted; the tree
\* chrooted into holds /dev/null and every layer's entries.
C3_ChrootOnlyWhenPopulated ==
    /\ ( Chrooted \/ child.state # "none" ) =>
          /\ HasEvent(<< "devices", 0 >>)
          /\ \A i \in 1..Len(layers) : HasEvent(<< "extract", i >>)
    /\ pc = "prepare_chdir" =>
          /\ procRoot = TempName
          /\ procRoot \o << "dev", "null" >> \in DOMAIN fs
          /\ fs[procRoot \o << "dev", "null" >>].kind = "chr"
          /\ \A i \in 1..Len(layers) :
               \A p \in DOMAIN LayerFiles(layers[i]) : procRoot \o p \in DOMAIN fs

C3_Witness ==
    /\ child.state = "running"
    /\ Chrooted
    /\ Len(layers) = 2

\* C4: a child that was started and exited normally with code c (and whose
\* wait returned it) makes RunCommand return c and the process exit with c.
C4_ExitCodePropagates ==
    ( parent.waited /\ ~parent.waitFailed /\ child.state = "exited" ) =>
        /\ parent.exitCode = child.code
        /\ pc = "exited" => exitStatus = child.code

C4_Witness ==
    /\ pc = "exited"
    /\ parent.waited /\ ~parent.waitFailed
    /\ child.state = "exited" /\ child.code = 7
    /\ exitStatus = 7

\* C5: when a signal killed the child, or the wait failed, RunCommand returns
\* the fallback code 1 and no other value.
C5_AbnormalGivesFallback ==
    ( parent.waited /\ ( child.state = "signaled" \/ parent.waitFailed ) )
        => parent.exitCode = FallbackCode

RunCommandReturned ==
    pc \in { "Close", "Exit" } \/ ( pc = "exited" /\ parent.waited )

\* C6: whatever the child writes to its two streams, in any interleaving and
\* beyond a pipe's capacity, once it is started RunCommand returns; and when
\* the parent waits on the child both readers have finished and handed over
\* everything the child wrote.
C6_DrainNeverDeadlocks ==
    /\ ( child.state = "running" ) ~> RunCommandReturned
    /\ []( ( pc = "Wait" \/ parent.waited ) =>
             /\ \A s \in Streams : readers[s].pc = "done"
             /\ parent.stdoutData = child.wrote["stdout"]
             /\ parent.stderrData = child.wrote["stderr"] )

C6_Witness ==
    /\ pc = "Close"
    /\ Len(child.wrote["stderr"]) > PipeCap
    /\ child.state = "exited"

AuthorizedCalls == { "getDigests", "getLayers", "downloadLayer" }

\* C8: an authorized call made with a non-empty token and the clock before
\* tokenExp sends no token request and leaves token and tokenExp as they are;
\* a call made once the clock has passed tokenExp sends exactly one token
\* request, and the registry request it then sends carries the token of that
\* answer, with tokenExp replaced from it.
C8_TokenRefetchedOnceOnExpiry ==
    call.fn \in AuthorizedCalls =>
      /\ ( call.token # "" /\ call.now < call.exp ) =>
            /\ call.tokReqs = 0
            /\ token = call.token
            /\ tokenExp = call.exp
      /\ call.now > call.exp => call.tokReqs = 1
      /\ ( call.sent /\ call.tokReqs = 1 ) =>
            /\ call.at >= call.now
            /\ lastReq.token = call.body.token
            /\ token = call.body.token
            /\ tokenExp = call.at + ( IF call.body.expiresIn > 0
                                        THEN call.body.expiresIn - GraceSeconds
                                        ELSE DefaultLifetime )
      /\ call.sent => lastReq.kind # "none" /\ lastReq.token = token

C8_Witness ==
    /\ call.fn = "downloadLayer"
    /\ call.sent
    /\ call.token # ""
    /\ call.exp > 0
    /\ call.now > call.exp
    /\ call.tokReqs = 1

\* The entries of a fan-out list that are for the host, and the first of them.
HostEntries(list) ==
    { i \in 1..Len(list) : list[i].os = GOOS /\ list[i].arch = GOARCH }
FirstHostEntry(list) ==
    CHOOSE i \in HostEntries(list) : \A j \in HostEntries(list) : i <= j

\* C9: for a fan-out list with an entry for the host's OS and architecture,
\* getDigests asks for the layer list of that entry's digest (the first such
\* entry) and of no other, and returns the layers the registry holds for it;
\* for a list with no such entry it fails with platform-not-found, having
\* asked for no layer list and returning no layers.
C9_PlatformResolution ==
    /\ []( manifests # << >> =>
             IF HostEntries(manifests) = { }
               THEN /\ pc = "exited"
                    /\ fatalAt = "platformNotFound"
                    /\ reqDigests = << >>
                    /\ layers = << >>
               ELSE /\ fatalAt # "platformNotFound"
                    /\ digestArg = manifests[FirstHostEntry(manifests)].digest
                    /\ reqDigests \in { << >>, << digestArg >> } )
    /\ []( fatalAt = "platformNotFound" =>
             manifests # << >> /\ HostEntries(manifests) = { } )
    /\ [][ ( pc = "layersRequest" /\ pc' = "loop" ) =>
             layers' = ManifestLayers(manifests[FirstHostEntry(manifests)].digest)
         ]_vars

C9_Witness ==
    /\ pc = "layersRequest"
    /\ Len(manifests) = 2
    /\ HostEntries(manifests) = { 2 }
    /\ reqDigests = << manifests[2].digest >>

\* The layer steps among the events.
IsLayerEvent(e) == e[1] # "devices"
LayerEvents == SelectSeq(events, IsLayerEvent)
StepOps(k) ==
    CASE k % 3 = 1 -> { "download" }
      [] k % 3 = 2 -> { "extract" }
      [] OTHER -> { "remove", "removeFailed" }

\* C10: the layer steps are, in this order, download, extraction and tarball
\* removal of layer 1, then of layer 2, and so on through the list: the blob
\* asked for is that of the current layer, no layer is skipped or taken twice,
\* a download starts only after the layer before it was extracted, and when
\* construction returns every layer has gone through its three steps.
C10_LayersSequential ==
    LET ev == LayerEvents
    IN  /\ \A k \in 1..Len(ev) :
               /\ ev[k][2] = ( ( k - 1 ) \div 3 ) + 1
               /\ ev[k][2] <= Len(layers)
               /\ ev[k][1] \in StepOps(k)
        /\ lastReq.kind = "blob" =>
               /\ Len(ev) > 0
               /\ ev[Len(ev)][1] = "download"
               /\ lastReq.digest = layers[ev[Len(ev)][2]]
        /\ ( pc = "prepare" \/ Chrooted ) => Len(ev) = 3 * Len(layers)

C10_Witness ==
    /\ pc = "prepare"
    /\ Len(layers) = 2
    /\ Len(LayerEvents) = 6

\* The layers, by index in the list, whose archive holds relative path p.
LayersWith(p) == { i \in 1..Len(layers) : p \in DOMAIN LayerFiles(layers[i]) }
LastLayerWith(p) == CHOOSE i \in LayersWith(p) : \A j \in LayersWith(p) : j <= i
ArchivePaths == UNION { DOMAIN LayerFiles(d) : d \in Digests }

\* C11: when construction has succeeded, every path that some layer of the
\* list holds is in the sandbox root with the content of the last layer, in
\* list order, that holds it; a file held by two layers has the later one's
\* version.
C11_LaterLayerWins ==
    pc = "prepare" =>
      \A p \in ArchivePaths :
        LayersWith(p) # { } =>
          /\ rootPath \o p \in DOMAIN fs
          /\ fs[rootPath \o p] = LayerFiles(layers[LastLayerWith(p)])[p]

C11_Witness ==
    /\ pc = "prepare"
    /\ layers = << "sha256:a", "sha256:b" >>
    /\ LayersWith(<< "etc", "issue" >>) = { 1, 2 }
    /\ fs[rootPath \o << "etc", "issue" >>] = FileNode(2)

\* The positions at which a registry or extraction stage can fail, and the
\* places the failures are reported from.
StagePositions == { "tokenRequest", "manifestRequest", "layersRequest",
                    "blobRequest", "extractTarball" }
StageFailures == { "refreshToken", "getDigests", "platformNotFound",
                   "getLayers", "downloadLayer", "extractTarball" }

\* What a stage has done when the program goes on after it.
StageDone ==
    CASE pc = "tokenRequest" ->
           /\ pc' \in { "initFS", "getDigests_send", "getLayers_send",
                        "downloadLayer_send" }
           /\ call'.body \in TokenBodies
           /\ token' = call'.body.token
      [] pc = "manifestRequest" ->
           \/ pc' = "refreshToken" /\ manifests' # << >> /\ rtCaller' = "getLayers"
           \/ pc' = "loop" /\ li' = 1
      [] pc = "layersRequest" ->
           pc' = "loop" /\ li' = 1 /\ layers' = ManifestLayers(digestArg)
      [] pc = "blobRequest" ->
           /\ pc' = "extractTarball"
           /\ Resolve(procRoot, TarballPath(layers[li])) \in DOMAIN fs'
      [] pc = "extractTarball" ->
           pc' = "removeTarball" /\ events' = Append(events, << "extract", li >>)
      [] OTHER -> TRUE

\* The process ends there, with a failure status, and nothing else changes
\* but the tarball a failed copy may leave.
StageAborted ==
    /\ pc' = "exited"
    /\ exitStatus' # 0
    /\ fatalAt' \in StageFailures
    /\ UNCHANGED << events, reqDigests, procRoot, child, closeRet >>

\* A step from a stage position: the stage's work, the abort, or time passing.
StageStep ==
    pc \in StagePositions =>
      \/ StageDone
      \/ StageAborted
      \/ pc' = pc /\ clock' # clock /\ UNCHANGED << dlVars, regVars, fsVars >>

\* C12: a stage either does its work and the program goes on, or the process
\* ends at once with a non-zero status: the stage is not entered again, no
\* request is in flight, no later layer is touched, the root is not switched
\* and no child is started; and nothing happens after the process has ended.
C12_FailureAbortsConstruction ==
    /\ [][StageStep]_vars
    /\ []( fatalAt \in StageFailures =>
             /\ pc = "exited"
             /\ exitStatus # 0
             /\ lastReq = NoReq
             /\ ~Chrooted
             /\ child.state = "none"
             /\ ~parent.waited )
    /\ [][ pc # "exited" ]_vars

C12_Witness ==
    /\ pc = "exited"
    /\ fatalAt = "extractTarball"
    /\ Len(layers) = 2
    /\ li = 1
    /\ LayerEvents = << << "download", 1 >> >>

\* The length of the text of s before its first colon (all of s without one).
NameLen(s) ==
    CHOOSE k \in 0..Len(s) :
      /\ \A j \in 1..k : s[j] # ":"
      /\ k = Len(s) \/ s[k + 1] = ":"
NameOf(s) == SubSeq(s, 1, NameLen(s))
TagTextOf(s) == SubSeq(s, NameLen(s) + 2, Len(s))

\* C13: a reference with a non-empty name is accepted; its image is the text
\* before the first colon; its tag is the text after the first colon when
\* there is such text, and "latest" for a name alone and for a name followed
\* by a colon and nothing; a reference with an empty name is rejected.
C13_ImageReferenceParse ==
    /\ pc = "refreshToken" =>
         /\ NameOf(imageAndTag) # << >>
         /\ image = NameOf(imageAndTag)
         /\ tag = IF TagTextOf(imageAndTag) = << >>
                    THEN Latest
                    ELSE TagTextOf(imageAndTag)
    /\ pc = "exited" =>
         /\ fatalAt = "NewDockerImageDownloader"
         /\ NameOf(imageAndTag) = << >>

C13_Witness ==
    /\ pc = "refreshToken"
    /\ imageAndTag = << "a", ":" >>
    /\ image = << "a" >>
    /\ tag = Latest

\* C14: once RunCommand has returned its code, the process exits with that
\* code (its low byte, as the host sees it) whether Close returned nil or an
\* error, and Close does not touch the code.
C14_CloseFailureKeepsExitCode ==
    /\ ( pc = "exited" /\ closeRet # "none" ) =>
         /\ exitStatus = parent.exitCode % 256
         /\ fatalAt = "none"
    /\ pc = "Exit" => closeRet \in { "nil", "err" } /\ parent.waited

C14_Witness ==
    /\ pc = "exited"
    /\ closeRet = "err"
    /\ parent.exitCode = 7
    /\ exitStatus = 7

DevNull == rootPath \o << "dev", "null" >>

\* C15: the device number of the node setupDevices makes is major * 256 +
\* minor for every major and minor of 0..255, so the two numbers are read
\* back from it and no two pairs give the same one; for 1 and 3 it is 259.
C15_MkdevBitExact ==
    DevNull \in DOMAIN fs =>
      /\ fs[DevNull].kind = "chr"
      /\ fs[DevNull].v = devMajor * 256 + devMinor
      /\ fs[DevNull].v \div 256 = devMajor
      /\ fs[DevNull].v % 256 = devMinor
      /\ ( devMajor = 1 /\ devMinor = 3 ) => fs[DevNull].v = 259

C15_Witness ==
    /\ DevNull \in DOMAIN fs
    /\ devMajor = 1
    /\ devMinor = 3
    /\ fs[DevNull] = ChrNode(259)

\* The stage of the isolation: 0 unconfined, 1 root switched, 2 namespace
\* isolated, 3 child running, 4 child terminated.
IsoStage ==
    CASE ChildTerminated -> 4
      [] child.state = "running" -> 3
      [] pidns -> 2
      [] Chrooted -> 1
      [] OTHER -> 0

\* One step of the isolation: the stage stays or moves to the next one, and
\* root, working directory, namespace and child each change at most once.
IsoStep ==
    /\ IsoStage' \in { IsoStage, IsoStage + 1 }
    /\ procRoot' # procRoot => procRoot = HostRoot
    /\ cwd' # cwd => ( cwd = HostRoot /\ Chrooted /\ cwd' = procRoot )
    /\ pidns' # pidns => ~pidns
    /\ ( child.state # "running" /\ child'.state = "running" ) => child.state = "none"

\* C16: the isolation moves forward only, one stage at a time: the root is
\* switched and the working directory set to it before the PID namespace is
\* asked for, the namespace is asked for before the child is started, no step
\* is taken twice, and a failed chroot, chdir, unshare, pipe or start ends the
\* process with no child ever started and no wait on one.
C16_IsolationForwardOnly ==
    /\ [][IsoStep]_vars
    /\ []( pidns => ( Chrooted /\ cwd = procRoot ) )
    /\ []( child.state # "none" => pidns )
    /\ []( fatalAt \in { "prepare", "pipes", "Start" } =>
             /\ pc = "exited"
             /\ exitStatus = FatalStatus
             /\ child.state = "none"
             /\ ~parent.waited )

C16_Witness ==
    /\ IsoStage = 4
    /\ pidns
    /\ Chrooted
    /\ cwd = procRoot
    /\ pc = "Wait"

\* C17: every authorized request in flight was sent with a token that is
\* non-empty and, at the time of sending, not yet expired.
C17_RequestTokenPresentAndFresh ==
    lastReq.kind # "none" =>
      /\ lastReq.token # ""
      /\ lastReq.now < lastReq.exp

\* Whether the tarball of layer i of the list is in the sandbox root.
TarballPresent(i) == TarballPath(layers[i]) \in DOMAIN fs

\* The removal of a layer's tarball: whatever its outcome the loop goes on to
\* the next layer, and the removal follows the layer's extraction.
RemovalStep ==
    pc = "removeTarball" =>
      /\ pc' = "loop"
      /\ li' = li + 1
      /\ fatalAt' = "none"
      /\ HasEvent(<< "extract", li >>)
      /\ \/ /\ events' = Append(events, << "remove", li >>)
            /\ TarballPath(layers[li]) \notin DOMAIN fs'
         \/ events' = Append(events, << "removeFailed", li >>) /\ UNCHANGED fs

\* C18: each layer's tarball is removed after its extraction and before the
\* next download; a failed removal does not end construction, and it is the
\* only failure construction gets over; a tarball whose removal succeeded is
\* gone, so with every removal succeeding none is left at success.
C18_TarballRemovedFailureIgnored ==
    /\ [][RemovalStep]_vars
    /\ []( \A i \in 1..Len(layers) :
             /\ HasEvent(<< "download", i >>) =>
                  \A j \in 1..( i - 1 ) :
                    HasEvent(<< "remove", j >>) \/ HasEvent(<< "removeFailed", j >>)
             /\ HasEvent(<< "remove", i >>) => ~TarballPresent(i) )
    /\ []( pc = "prepare" =>
             /\ fatalAt = "none"
             /\ \A i \in 1..Len(layers) :
                  /\ HasEvent(<< "download", i >>)
                  /\ HasEvent(<< "extract", i >>)
                  /\ TarballPresent(i) <=> HasEvent(<< "removeFailed", i >>) )

C18_Witness ==
    /\ pc = "prepare"
    /\ Len(layers) = 2
    /\ HasEvent(<< "removeFailed", 1 >>)
    /\ HasEvent(<< "remove", 2 >>)
    /\ TarballPresent(1)
    /\ ~TarballPresent(2)

\* C19: in the RunCommand of src/unnamed/part_000, whatever the child writes
\* to its two streams, once it is started both streams are drained and
\* RunCommand returns (or the process ends).
C19_Part000DrainsBothStreams ==
    ( child.state = "running" ) ~> ( pc \in { "p0_returned", "exited" } )

\* C20: once DownloadAndUnpackLayers has returned success, and so whenever
\* the process has changed its root to the sandbox, at least one layer has
\* been downloaded and extracted into the sandbox root.
C20_SuccessHasExtractedLayer ==
    ( pc = "prepare" \/ Chrooted ) =>
        /\ Len(layers) >= 1
        /\ HasEvent(<< "download", 1 >>)
        /\ HasEvent(<< "extract", 1 >>)

\* NewDockerImageDownloader returned an error: the reference did not parse,
\* or the refreshToken it calls failed.
DownloaderFailed ==
    \/ fatalAt = "NewDockerImageDownloader"
    \/ fatalAt = "refreshToken" /\ rtCaller = "NewDockerImageDownloader"

\* A step that creates the sandbox directory or changes the file system.
SandboxStep ==
    /\ rootPath' # rootPath =>
           /\ pc = "initFS"
           /\ ParseImage(imageAndTag)[1]
           /\ image = ParseImage(imageAndTag)[2]
           /\ call.fn = "NewDockerImageDownloader"
           /\ call.tokReqs = 1
           /\ token = call.body.token
           /\ tokenExp = TokenExpiry(call.body.expiresIn, call.at)
    /\ fs' # fs => rootPath' # << >>

\* C21: the sandbox directory is created only by initFS, after the image
\* reference has parsed and the first token request has been answered with a
\* token response, and the file system changes only once the sandbox exists;
\* a run in which NewDockerImageDownloader fails ends with status 1, the file
\* system as it was, no sandbox path and no device step done.
C21_NoSandboxWithoutDownloader ==
    /\ [][SandboxStep]_vars
    /\ [] ( DownloaderFailed =>
              /\ pc = "exited"
              /\ exitStatus = FatalStatus
              /\ fs = HostTree
              /\ rootPath = << >>
              /\ events = << >>
              /\ ~Chrooted )

\* C21: the first token request failed and the run has ended with no sandbox.
C21_Witness ==
    /\ fatalAt = "refreshToken"
    /\ rtCaller = "NewDockerImageDownloader"
    /\ call.tokReqs = 1
    /\ pc = "exited"
    /\ fs = HostTree

====
